---- MODULE Spec2Model ----
\* Model of src/src/procesador.py (class Analizador): the CSV loader with its
\* numeric cleaning, and the five grouped-reduction queries over the records
\* held in self.datos.
\*
\* Representation
\*   text          a sequence of one-character strings (<<"1", ",", "5">>)
\*   optional text [hay |-> BOOLEAN, s |-> text]; None is Ninguno
\*   float         an integer number of 1/Escala units (exact arithmetic)
\*   dict          a sequence of [k |-> key, v |-> value] in insertion order
\*   row (fila)    a function from column names to values, as csv.DictReader
\*                 yields it and as leer_csv rewrites it
EXTENDS Integers, Sequences, FiniteSets, TLC

VARIABLES
    archivo,    \* the input: the file at self.ruta_csv, or its absence
    pc,         \* "inicio" before __init__, then "listo", or "fallo" if it raised
    datos,      \* self.datos
    propagada,  \* whether an exception left __init__
    ultimo,     \* the latest query call and what it returned
    primera,    \* the first query call and what it returned
    rellamada   \* whether a query was called after the first call

vars == <<archivo, pc, datos, propagada, ultimo, primera, rellamada>>

-----------------------------------------------------------------------------
\* Bounds of the model.

\* Longest raw text of a numeric field enumerated exhaustively.
MaxLen == 3

\* Largest number of lines after the header line of a file.
MaxFilas == 2

\* Largest number of lines of the files of the grouped-reduction runs.
MaxFilasGrupo == 3

\* One float unit is 1/Escala: every decimal of a text of MaxLen characters
\* is represented exactly.
Escala == 10 ^ MaxLen

-----------------------------------------------------------------------------
\* Values.

Ninguno == [hay |-> FALSE, s |-> <<>>]

Txt(s) == [hay |-> TRUE, s |-> s]

\* The default region of leer_csv.
DESCONOCIDA == <<"D", "E", "S", "C", "O", "N", "O", "C", "I", "D", "A">>

CAMPOS_NUMERICOS_CLAVE ==
    <<"TOTAL_VENTAS", "EXPORTACIONES", "IMPORTACIONES", "VENTAS_NETAS_TARIFA_0">>

CamposNumericos == {CAMPOS_NUMERICOS_CLAVE[i] : i \in DOMAIN CAMPOS_NUMERICOS_CLAVE}

\* str.upper() on one character.
UpperChar(c) ==
    CASE c = "a" -> "A"
      [] c = "b" -> "B"
      [] c = "c" -> "C"
      [] OTHER -> c

\* str.upper().
Upper(s) == [i \in DOMAIN s |-> UpperChar(s[i])]

\* str.replace(',', '.').
ReplaceComma(s) == [i \in DOMAIN s |-> IF s[i] = "," THEN "." ELSE s[i]]

Digitos == {"0", "1", "2", "3", "4", "5", "6", "7", "8", "9"}

DigitVal(c) ==
    CASE c = "0" -> 0 [] c = "1" -> 1 [] c = "2" -> 2 [] c = "3" -> 3
      [] c = "4" -> 4 [] c = "5" -> 5 [] c = "6" -> 6 [] c = "7" -> 7
      [] c = "8" -> 8 [] c = "9" -> 9

\* The scan float() makes of the text after its sign: digits, at most one
\* point, at least one digit. punto is -1 before the point and the number of
\* decimals after it; val is the number the digits read so far spell.
RECURSIVE Escanear(_, _, _, _, _)
Escanear(s, i, punto, ndig, val) ==
    IF i > Len(s)
    THEN IF ndig = 0
         THEN [ok |-> FALSE, val |-> 0]
         ELSE [ok |-> TRUE,
               val |-> IF punto <= 0 THEN val * Escala
                       ELSE (val * Escala) \div (10 ^ punto)]
    ELSE IF s[i] \in Digitos
         THEN Escanear(s, i + 1, IF punto >= 0 THEN punto + 1 ELSE punto,
                       ndig + 1, val * 10 + DigitVal(s[i]))
         ELSE IF s[i] = "." /\ punto = -1
              THEN Escanear(s, i + 1, 0, ndig, val)
              ELSE [ok |-> FALSE, val |-> 0]

\* float(text): [ok |-> FALSE] stands for ValueError.
float(s) ==
    IF s # <<>> /\ s[1] \in {"-", "+"}
    THEN LET r == Escanear(Tail(s), 1, -1, 0, 0)
         IN  [ok |-> r.ok, val |-> IF s[1] = "-" THEN 0 - r.val ELSE r.val]
    ELSE Escanear(s, 1, -1, 0, 0)

Max(a, b) == IF b > a THEN b ELSE a

\* A cleaning without the clamp to zero.
limpiar_sin_max(valor) ==
    IF ~valor.hay THEN 0
    ELSE LET num == float(ReplaceComma(valor.s))
         IN  IF num.ok THEN num.val ELSE 0

\* Analizador._limpiar_valor_numerico.
limpiar_valor_numerico(valor) ==
    IF ~valor.hay THEN 0
    ELSE LET num == float(ReplaceComma(valor.s))
         IN  IF num.ok THEN Max(0, num.val) ELSE 0

-----------------------------------------------------------------------------
\* Rows.

\* dict.get(k, def).
Get(fila, k, def) == IF k \in DOMAIN fila THEN fila[k] ELSE def

\* fila[k] = v.
Put(fila, k, v) == [c \in DOMAIN fila \cup {k} |-> IF c = k THEN v ELSE fila[c]]

Columnas(encabezado) == {encabezado[j] : j \in DOMAIN encabezado}

PosColumna(encabezado, c) == CHOOSE j \in DOMAIN encabezado : encabezado[j] = c

\* The row csv.DictReader builds from one line: a line shorter than the
\* header leaves its missing columns None (restval).
DictFila(encabezado, linea) ==
    [c \in Columnas(encabezado) |->
        IF PosColumna(encabezado, c) <= Len(linea)
        THEN Txt(linea[PosColumna(encabezado, c)])
        ELSE Ninguno]

\* csv.DictReader skips the lines without any field.
LineasDeDatos(lineas) == SelectSeq(lineas, LAMBDA l : l # <<>>)

\* Step 2 of the loop body of leer_csv on the first n numeric fields.
RECURSIVE LimpiarCampos(_, _)
LimpiarCampos(fila, n) ==
    IF n = 0 THEN fila
    ELSE LET previa == LimpiarCampos(fila, n - 1)
             campo == CAMPOS_NUMERICOS_CLAVE[n]
         IN  Put(previa, campo, limpiar_valor_numerico(Get(fila, campo, Ninguno)))

\* Whether fila.get("PROVINCIA", "DESCONOCIDA").upper() raises AttributeError.
ProvinciaFalla(fila) == "PROVINCIA" \in DOMAIN fila /\ ~fila["PROVINCIA"].hay

\* fila.get("PROVINCIA", "DESCONOCIDA").upper(), when it does not raise.
ProvinciaNormalizada(fila) == Upper(Get(fila, "PROVINCIA", Txt(DESCONOCIDA)).s)

\* The loop body of leer_csv on one row.
LimpiarFila(fila) ==
    LimpiarCampos(Put(fila, "PROVINCIA", ProvinciaNormalizada(fila)),
                  Len(CAMPOS_NUMERICOS_CLAVE))

\* The for loop of leer_csv over the first n data lines: the rows appended so
\* far, or the exception that left the loop. The reader raises on physical
\* line f.falla (0: on none); blank lines before it are counted with the rest.
RECURSIVE Recorrer(_, _)
Recorrer(f, n) ==
    IF n = 0 THEN [exc |-> FALSE, filas |-> <<>>]
    ELSE LET previo == Recorrer(f, n - 1)
             linea == f.lineas[n]
             fila == DictFila(f.encabezado, linea)
         IN  IF previo.exc THEN previo
             ELSE IF f.falla = n THEN [exc |-> TRUE, filas |-> previo.filas]
             ELSE IF linea = <<>> THEN previo
             ELSE IF ProvinciaFalla(fila) THEN [exc |-> TRUE, filas |-> previo.filas]
             ELSE [exc |-> FALSE, filas |-> Append(previo.filas, LimpiarFila(fila))]

\* A load that returns the rows cleaned before the exception.
leer_csv_parcial(f) ==
    IF ~f.existe THEN [exc |-> FALSE, datos |-> <<>>]
    ELSE [exc |-> FALSE, datos |-> Recorrer(f, Len(f.lineas)).filas]

\* Analizador.leer_csv: exc tells whether an exception leaves the method.
leer_csv(f) ==
    IF ~f.existe THEN [exc |-> FALSE, datos |-> <<>>]
    ELSE LET r == Recorrer(f, Len(f.lineas))
         IN  IF r.exc THEN [exc |-> FALSE, datos |-> <<>>]
             ELSE [exc |-> FALSE, datos |-> r.filas]

-----------------------------------------------------------------------------
\* Dictionaries in insertion order.

Claves(d) == {d[i].k : i \in DOMAIN d}

Tiene(d, k) == \E i \in DOMAIN d : d[i].k = k

\* d.get(k, def).
DictGet(d, k, def) ==
    IF Tiene(d, k) THEN d[CHOOSE i \in DOMAIN d : d[i].k = k].v ELSE def

\* defaultdict(float): d[k] += x.
DictSumar(d, k, x) ==
    IF Tiene(d, k)
    THEN [i \in DOMAIN d |-> IF d[i].k = k THEN [k |-> k, v |-> d[i].v + x] ELSE d[i]]
    ELSE Append(d, [k |-> k, v |-> 0 + x])

\* The truth value Python gives an optional text.
Verdadero(o) == o.hay /\ o.s # <<>>

RECURSIVE MCD(_, _)
MCD(a, b) == IF b = 0 THEN a ELSE MCD(b, a % b)

\* The quotient n / d of two non-negative floats as a fraction in lowest
\* terms; [ok |-> FALSE] stands for ZeroDivisionError.
Dividir(n, d) ==
    IF d = 0 THEN [ok |-> FALSE, num |-> 0, den |-> 1]
    ELSE [ok |-> TRUE, num |-> n \div MCD(n, d), den |-> d \div MCD(n, d)]

\* The float 0.0 among the quotients.
Cero == [ok |-> TRUE, num |-> 0, den |-> 1]

-----------------------------------------------------------------------------
\* Queries. Each yields [error, val]: error tells whether the call raises.

\* A grouping that leaves out the records of empty region.
RECURSIVE SumarVentasSinVacias(_, _)
SumarVentasSinVacias(d, n) ==
    IF n = 0 THEN <<>>
    ELSE IF d[n]["PROVINCIA"] = <<>> THEN SumarVentasSinVacias(d, n - 1)
    ELSE DictSumar(SumarVentasSinVacias(d, n - 1), d[n]["PROVINCIA"], d[n]["TOTAL_VENTAS"])

\* The loop of ventas_totales_por_provincia over the first n records.
RECURSIVE SumarVentas(_, _)
SumarVentas(d, n) ==
    IF n = 0 THEN <<>>
    ELSE DictSumar(SumarVentas(d, n - 1), d[n]["PROVINCIA"], d[n]["TOTAL_VENTAS"])

\* Analizador.ventas_totales_por_provincia.
ventas_totales_por_provincia(d) ==
    [error |-> FALSE, val |-> SumarVentas(d, Len(d))]

\* A lookup that does not normalise the queried name.
ventas_por_provincia_sin_upper(d, nombre) ==
    [error |-> FALSE,
     val |-> DictGet(ventas_totales_por_provincia(d).val, nombre, 0)]

\* Analizador.ventas_por_provincia.
ventas_por_provincia(d, nombre) ==
    LET nombre_normalizado == Upper(nombre)
        totales == ventas_totales_por_provincia(d).val
    IN  [error |-> FALSE, val |-> DictGet(totales, nombre_normalizado, 0)]

\* A grouping that folds the rows without a month into an empty-key bucket.
RECURSIVE SumarExportacionesCubo(_, _)
SumarExportacionesCubo(d, n) ==
    IF n = 0 THEN <<>>
    ELSE DictSumar(SumarExportacionesCubo(d, n - 1),
                   Get(d[n], "MES", Ninguno).s, Get(d[n], "EXPORTACIONES", 0))

\* The loop of exportaciones_totales_por_mes over the first n records.
RECURSIVE SumarExportaciones(_, _)
SumarExportaciones(d, n) ==
    IF n = 0 THEN <<>>
    ELSE LET previo == SumarExportaciones(d, n - 1)
             mes == Get(d[n], "MES", Ninguno)
             exportaciones == Get(d[n], "EXPORTACIONES", 0)
         IN  IF Verdadero(mes) THEN DictSumar(previo, mes.s, exportaciones)
             ELSE previo

\* Analizador.exportaciones_totales_por_mes.
exportaciones_totales_por_mes(d) ==
    [error |-> FALSE, val |-> SumarExportaciones(d, Len(d))]

\* The loop of provincia_con_mas_importaciones over the first n records.
RECURSIVE SumarImportaciones(_, _)
SumarImportaciones(d, n) ==
    IF n = 0 THEN <<>>
    ELSE LET previo == SumarImportaciones(d, n - 1)
             provincia == Get(d[n], "PROVINCIA", <<>>)
             importaciones == Get(d[n], "IMPORTACIONES", 0)
         IN  IF provincia # <<>> THEN DictSumar(previo, provincia, importaciones)
             ELSE previo

\* A maximum that keeps the last of the keys sharing it.
RECURSIVE MaxClaveUltima(_, _)
MaxClaveUltima(d, n) ==
    IF n = 1 THEN 1
    ELSE LET mejor == MaxClaveUltima(d, n - 1)
         IN  IF d[n].v >= d[mejor].v THEN n ELSE mejor

\* max(d, key=d.get) over the first n keys (n >= 1): the position of the
\* first key, in insertion order, whose value no later key exceeds.
RECURSIVE MaxClave(_, _)
MaxClave(d, n) ==
    IF n = 1 THEN 1
    ELSE LET mejor == MaxClave(d, n - 1)
         IN  IF d[n].v > d[mejor].v THEN n ELSE mejor

\* The query without its test for an empty grouping: max() of no key raises.
provincia_con_mas_importaciones_sin_vacio(d) ==
    LET imp == SumarImportaciones(d, Len(d))
    IN  IF imp = <<>>
        THEN [error |-> TRUE, val |-> [prov |-> Ninguno, total |-> 0]]
        ELSE [error |-> FALSE,
              val |-> [prov |-> Txt(imp[MaxClave(imp, Len(imp))].k),
                       total |-> imp[MaxClave(imp, Len(imp))].v]]

\* Analizador.provincia_con_mas_importaciones.
provincia_con_mas_importaciones(d) ==
    LET importaciones_por_provincia == SumarImportaciones(d, Len(d))
    IN  IF importaciones_por_provincia = <<>>
        THEN [error |-> FALSE, val |-> [prov |-> Ninguno, total |-> 0]]
        ELSE LET provincia_max ==
                     MaxClave(importaciones_por_provincia,
                              Len(importaciones_por_provincia))
             IN  [error |-> FALSE,
                  val |-> [prov |-> Txt(importaciones_por_provincia[provincia_max].k),
                           total |-> importaciones_por_provincia[provincia_max].v]]

\* The first loop of porcentaje_ventas_tarifa_cero over the first n records,
\* summing the given field by region.
RECURSIVE SumarPorRegion(_, _, _)
SumarPorRegion(d, n, campo) ==
    IF n = 0 THEN <<>>
    ELSE LET previo == SumarPorRegion(d, n - 1, campo)
             provincia == Get(d[n], "PROVINCIA", <<>>)
         IN  IF provincia # <<>> THEN DictSumar(previo, provincia, Get(d[n], campo, 0))
             ELSE previo

\* A percentage computed without the test of the divisor.
PorcentajeSinGuarda(ventas_cero, total_ventas) == Dividir(ventas_cero * 100, total_ventas)

\* The body of the second loop of porcentaje_ventas_tarifa_cero.
Porcentaje(ventas_cero, total_ventas) ==
    IF total_ventas > 0 THEN Dividir(ventas_cero * 100, total_ventas) ELSE Cero

\* Analizador.porcentaje_ventas_tarifa_cero.
porcentaje_ventas_tarifa_cero(d) ==
    LET ventas_cero_por_provincia == SumarPorRegion(d, Len(d), "VENTAS_NETAS_TARIFA_0")
        ventas_totales == SumarPorRegion(d, Len(d), "TOTAL_VENTAS")
        porcentajes ==
            [i \in DOMAIN ventas_totales |->
                [k |-> ventas_totales[i].k,
                 v |-> Porcentaje(DictGet(ventas_cero_por_provincia,
                                          ventas_totales[i].k, 0),
                                  ventas_totales[i].v)]]
    IN  [error |-> \E i \in DOMAIN porcentajes : ~porcentajes[i].v.ok,
         val |-> porcentajes]

-----------------------------------------------------------------------------
\* Input files.

\* The lines a header allows: one field per column, less at most faltan
\* trailing fields (a shorter line is a short row, the line without fields a
\* blank line), each field drawn from the texts vals gives its column.
Lineas(enc, vals, faltan) ==
    UNION {{l \in [1..n -> UNION {vals[c] : c \in Columnas(enc)}] :
               \A j \in 1..n : l[j] \in vals[enc[j]]} :
           n \in Max(0, Len(enc) - faltan)..Len(enc)}

\* The existing files of at most maxFilas lines under one of the headers
\* encs; the reader raises on one of the lines fallas allows (0: on none).
Archivos(encs, vals, faltan, maxFilas, fallas) ==
    UNION {UNION {{[existe |-> TRUE, encabezado |-> enc, lineas |-> ls, falla |-> k] :
                       ls \in [1..n -> Lineas(enc, vals, faltan)],
                       k \in fallas \cap 0..n} :
                  n \in 0..maxFilas} : enc \in encs}

\* A path that resolves to no file.
NoExiste == [existe |-> FALSE, encabezado |-> <<>>, lineas |-> <<>>, falla |-> 0]

\* The names ventas_por_provincia is queried with.
Nombres == {<<"a">>, <<"A">>, <<"c">>}

NingunaLlamada == [op |-> "ninguna", nombre |-> <<>>, res |-> <<>>]

InitDe(archivos) ==
    /\ archivo \in archivos
    /\ pc = "inicio"
    /\ datos = <<>>
    /\ propagada = FALSE
    /\ ultimo = NingunaLlamada
    /\ primera = NingunaLlamada
    /\ rellamada = FALSE

-----------------------------------------------------------------------------
\* Operations.

\* Analizador.__init__.
Construir ==
    /\ pc = "inicio"
    /\ LET r == leer_csv(archivo)
       IN  /\ datos' = r.datos
           /\ propagada' = r.exc
           /\ pc' = IF r.exc THEN "fallo" ELSE "listo"
    /\ UNCHANGED <<archivo, ultimo, primera, rellamada>>

\* The record of a call that returned res (or raised).
Registrar(op, nombre, res) ==
    /\ ultimo' = [op |-> op, nombre |-> nombre, res |-> res]
    /\ primera' = IF primera.op = "ninguna" THEN ultimo' ELSE primera
    /\ rellamada' = (primera.op # "ninguna")

ConsultaVentasTotales ==
    /\ pc = "listo"
    /\ Registrar("ventas_totales_por_provincia", <<>>, ventas_totales_por_provincia(datos))
    /\ UNCHANGED <<archivo, pc, datos, propagada>>

ConsultaVentasPor ==
    /\ pc = "listo"
    /\ \E nombre \in Nombres :
           Registrar("ventas_por_provincia", nombre, ventas_por_provincia(datos, nombre))
    /\ UNCHANGED <<archivo, pc, datos, propagada>>

\* A query that takes the month out of the records it reads (fila.pop).
ConsultaExportacionesPop ==
    /\ pc = "listo"
    /\ Registrar("exportaciones_totales_por_mes", <<>>, exportaciones_totales_por_mes(datos))
    /\ datos' = [i \in DOMAIN datos |->
                    [c \in DOMAIN datos[i] \ {"MES"} |-> datos[i][c]]]
    /\ UNCHANGED <<archivo, pc, propagada>>

ConsultaExportaciones ==
    /\ pc = "listo"
    /\ Registrar("exportaciones_totales_por_mes", <<>>, exportaciones_totales_por_mes(datos))
    /\ UNCHANGED <<archivo, pc, datos, propagada>>

ConsultaImportaciones ==
    /\ pc = "listo"
    /\ Registrar("provincia_con_mas_importaciones", <<>>,
                 provincia_con_mas_importaciones(datos))
    /\ UNCHANGED <<archivo, pc, datos, propagada>>

ConsultaPorcentaje ==
    /\ pc = "listo"
    /\ Registrar("porcentaje_ventas_tarifa_cero", <<>>, porcentaje_ventas_tarifa_cero(datos))
    /\ UNCHANGED <<archivo, pc, datos, propagada>>

Next ==
    \/ Construir
    \/ ConsultaVentasTotales
    \/ ConsultaVentasPor
    \/ ConsultaExportaciones
    \/ ConsultaImportaciones
    \/ ConsultaPorcentaje

-----------------------------------------------------------------------------
\* Specifications: the same operations on different families of input files.

a == <<"a">>
A == <<"A">>
B == <<"B">>
Vacio == <<>>

\* Loading: headers with the region column first, last and missing; short
\* rows, blank lines, a reader failure on any line, and the missing file.
ValoresCarga ==
    [c \in {"PROVINCIA", "TOTAL_VENTAS", "MES"} |->
        CASE c = "PROVINCIA" -> {a, B}
          [] c = "TOTAL_VENTAS" -> {<<"2">>, <<"-", "1">>}
          [] c = "MES" -> {<<"0", "1">>}]

ArchivosCarga ==
    {NoExiste} \cup
    Archivos({<<"PROVINCIA", "TOTAL_VENTAS">>, <<"TOTAL_VENTAS", "PROVINCIA">>,
              <<"TOTAL_VENTAS", "MES">>},
             ValoresCarga, 2, MaxFilas, 0..MaxFilas)

Init == InitDe(ArchivosCarga)

Spec == Init /\ [][Next]_vars

\* Cleaning: one line under a header that names one numeric field, alone
\* or after a month column (a short row then leaves the field None);
\* the field's text is any text of at most MaxLen characters of Alfabeto.
Alfabeto == {"1", "5", "-", ",", ".", "x"}

Textos == UNION {[1..n -> Alfabeto] : n \in 0..MaxLen}

EncabezadosLimpiar ==
    {<<campo>> : campo \in CamposNumericos} \cup {<<"MES", "TOTAL_VENTAS">>}

ValoresLimpiar ==
    [c \in CamposNumericos \cup {"MES"} |-> IF c = "MES" THEN {<<"0", "1">>} ELSE Textos]

InitLimpiar == InitDe(Archivos(EncabezadosLimpiar, ValoresLimpiar, 1, 1, {0}))

SpecLimpiar == InitLimpiar /\ [][Next]_vars

\* Sales by region: regions that differ by letter case only, an empty
\* region, a file without region column.
ValoresVentas ==
    [c \in {"PROVINCIA", "TOTAL_VENTAS"} |->
        IF c = "PROVINCIA" THEN {a, A, B, Vacio}
        ELSE {<<"2">>, <<"1", ",", "5">>}]

InitVentas ==
    InitDe(Archivos({<<"PROVINCIA", "TOTAL_VENTAS">>, <<"TOTAL_VENTAS">>},
                    ValoresVentas, 0, MaxFilasGrupo, {0}))

SpecVentas == InitVentas /\ [][Next]_vars

\* Exports by month: months present, empty, None (short row) and without
\* column; a negative export.
ValoresMes ==
    [c \in {"EXPORTACIONES", "MES"} |->
        IF c = "MES" THEN {<<"0", "1">>, <<"0", "2">>, Vacio}
        ELSE {<<"2">>, <<"-", "1">>}]

InitMes ==
    InitDe(Archivos({<<"EXPORTACIONES", "MES">>, <<"EXPORTACIONES">>},
                    ValoresMes, 1, MaxFilasGrupo, {0}))

SpecMes == InitMes /\ [][Next]_vars

\* Imports by region: two regions and the empty one, sums that tie.
ValoresImp ==
    [c \in {"PROVINCIA", "IMPORTACIONES"} |->
        IF c = "PROVINCIA" THEN {a, B, Vacio} ELSE {<<"1">>, <<"2">>}]

InitImp ==
    InitDe(Archivos({<<"PROVINCIA", "IMPORTACIONES">>}, ValoresImp, 1, MaxFilasGrupo, {0}))

SpecImp == InitImp /\ [][Next]_vars

\* Zero-rate percentage: regions whose sales sum to zero with and without
\* zero-rate sales.
ValoresTarifa ==
    [c \in {"PROVINCIA", "TOTAL_VENTAS", "VENTAS_NETAS_TARIFA_0"} |->
        CASE c = "PROVINCIA" -> {a, B, Vacio}
          [] c = "TOTAL_VENTAS" -> {<<"x">>, <<"2">>}
          [] c = "VENTAS_NETAS_TARIFA_0" -> {<<"1">>}]

InitTarifa ==
    InitDe(Archivos({<<"PROVINCIA", "TOTAL_VENTAS", "VENTAS_NETAS_TARIFA_0">>},
                    ValoresTarifa, 1, MaxFilas, {0}))

SpecTarifa == InitTarifa /\ [][Next]_vars

-----------------------------------------------------------------------------
\* Vocabulary of the properties.

\* The data lines of the input file, in file order.
DatosDeEntrada == LineasDeDatos(archivo.lineas)

\* The row the reader yields for the i-th data line.
FilaCruda(i) == DictFila(archivo.encabezado, DatosDeEntrada[i])

\* The region a row is expected to get: its upper-cased region text, or the
\* sentinel when the row has no region (no such column, or a short row).
RegionEsperada(fila) ==
    IF "PROVINCIA" \in DOMAIN fila /\ fila["PROVINCIA"].hay
    THEN [i \in DOMAIN fila["PROVINCIA"].s |-> UpperChar(fila["PROVINCIA"].s[i])]
    ELSE DESCONOCIDA

\* Whether reading or processing fails at some line of the file.
FallaEnAlgunaFila ==
    \E n \in DOMAIN archivo.lineas :
        \/ archivo.falla = n
        \/ /\ archivo.lineas[n] # <<>>
           /\ "PROVINCIA" \in Columnas(archivo.encabezado)
           /\ PosColumna(archivo.encabezado, "PROVINCIA") > Len(archivo.lineas[n])

Hecha(op) == pc = "listo" /\ ultimo.op = op

-----------------------------------------------------------------------------
\* Loading.

\* C2: for each data row of an existing file the reader reads through,
\* leer_csv retains a record whose region is the upper-cased region text of
\* the row, or DESCONOCIDA when the row's region is absent; an absent region
\* neither fails the load nor loses records.
C2_RegionPorFila ==
    (pc # "inicio" /\ archivo.existe /\ archivo.falla = 0) =>
        /\ pc = "listo"
        /\ Len(datos) = Len(DatosDeEntrada)
        /\ \A i \in DOMAIN datos : datos[i]["PROVINCIA"] = RegionEsperada(FilaCruda(i))

\* C8: constructing on a path that does not exist raises nothing and holds
\* no record; the three mapping queries return empty mappings,
\* ventas_por_provincia returns 0.0 and provincia_con_mas_importaciones
\* returns (None, 0.0), none of them raising.
C8_ArchivoInexistente ==
    (pc # "inicio" /\ ~archivo.existe) =>
        /\ pc = "listo"
        /\ ~propagada
        /\ datos = <<>>
        /\ ultimo.op # "ninguna" => ~ultimo.res.error
        /\ ultimo.op \in {"ventas_totales_por_provincia", "exportaciones_totales_por_mes",
                          "porcentaje_ventas_tarifa_cero"} => ultimo.res.val = <<>>
        /\ ultimo.op = "ventas_por_provincia" => ultimo.res.val = 0
        /\ ultimo.op = "provincia_con_mas_importaciones" =>
               ultimo.res.val = [prov |-> Ninguno, total |-> 0]

C8_Testigo ==
    /\ ~archivo.existe
    /\ rellamada
    /\ primera.op = "ventas_por_provincia"
    /\ Hecha("provincia_con_mas_importaciones")

\* C9: loading an existing file propagates no exception; if reading or
\* processing fails at any row the held sequence is empty, and otherwise it
\* holds the cleaned record of each data row, in file row order.
C9_TodoONada ==
    (pc # "inicio" /\ archivo.existe) =>
        /\ pc = "listo"
        /\ ~propagada
        /\ FallaEnAlgunaFila => datos = <<>>
        /\ ~FallaEnAlgunaFila =>
               /\ Len(datos) = Len(DatosDeEntrada)
               /\ \A i \in DOMAIN datos : datos[i] = LimpiarFila(FilaCruda(i))

\* A failure on the second line, after a first line that was cleaned.
C9_Testigo ==
    /\ pc = "listo"
    /\ archivo.existe
    /\ Len(archivo.lineas) >= 2
    /\ archivo.lineas[1] # <<>>
    /\ ~ProvinciaFalla(DictFila(archivo.encabezado, archivo.lineas[1]))
    /\ archivo.lineas[2] # <<>>
    /\ archivo.falla = 0
    /\ ProvinciaFalla(DictFila(archivo.encabezado, archivo.lineas[2]))
    /\ datos = <<>>

\* C10: after any calls of the queries the held sequence is what the load
\* produced at construction, and a query called again returns what its first
\* call returned.
C10_ConsultasPuras ==
    pc = "listo" =>
        /\ datos = leer_csv(archivo).datos
        /\ (ultimo.op = primera.op /\ ultimo.nombre = primera.nombre) =>
               ultimo.res = primera.res

C10_Testigo ==
    /\ rellamada
    /\ datos # <<>>
    /\ Hecha("exportaciones_totales_por_mes")
    /\ primera.op = "exportaciones_totales_por_mes"
    /\ ultimo.res.val # <<>>

-----------------------------------------------------------------------------
\* Numeric cleaning.

\* The number a sequence of digits spells.
RECURSIVE NumDe(_)
NumDe(ds) ==
    IF ds = <<>> THEN 0
    ELSE NumDe(SubSeq(ds, 1, Len(ds) - 1)) * 10 + DigitVal(ds[Len(ds)])

SoloDigitos(ds) == \A i \in DOMAIN ds : ds[i] \in Digitos

SinSigno(t) == IF t # <<>> /\ t[1] = "-" THEN Tail(t) ELSE t

\* Whether u splits after its p-th character into an integer part and either
\* nothing or a point and a fraction, with a digit somewhere.
ParteEn(u, p) ==
    LET entero == SubSeq(u, 1, p)
        resto == SubSeq(u, p + 1, Len(u))
    IN  /\ SoloDigitos(entero)
        /\ \/ resto = <<>> /\ p >= 1
           \/ /\ resto # <<>>
              /\ resto[1] = "."
              /\ SoloDigitos(Tail(resto))
              /\ p + Len(resto) >= 2

\* Whether t is a dot-decimal number: an optional minus sign, digits, and at
\* most one point among them.
EsDecimal(t) == \E p \in 0..Len(SinSigno(t)) : ParteEn(SinSigno(t), p)

\* The value, in float units, of a dot-decimal number.
ValorDecimal(t) ==
    LET u == SinSigno(t)
        p == CHOOSE q \in 0..Len(u) : ParteEn(u, q)
        entero == SubSeq(u, 1, p)
        frac == SubSeq(u, p + 2, Len(u))
        abs == NumDe(entero) * Escala + (NumDe(frac) * Escala) \div (10 ^ Len(frac))
    IN  IF t # u THEN 0 - abs ELSE abs

\* The dot-decimal equivalent of a comma-decimal text.
ConPuntos(t) == [i \in DOMAIN t |-> IF t[i] = "," THEN "." ELSE t[i]]

\* The value a raw field is expected to be cleaned to.
LimpioEsperado(crudo) ==
    IF ~crudo.hay THEN 0
    ELSE IF ~EsDecimal(ConPuntos(crudo.s)) THEN 0
    ELSE IF ValorDecimal(ConPuntos(crudo.s)) < 0 THEN 0
    ELSE ValorDecimal(ConPuntos(crudo.s))

\* C1: after leer_csv every record holds each of the four numeric fields with
\* a value >= 0.0: 0.0 for an absent value, a non-numeric text and a negative
\* number, and for a comma-decimal text the value of its dot-decimal
\* equivalent.
C1_CamposLimpios ==
    pc = "listo" =>
        /\ Len(datos) = Len(DatosDeEntrada)
        /\ \A i \in DOMAIN datos : \A campo \in CamposNumericos :
               /\ campo \in DOMAIN datos[i]
               /\ datos[i][campo] >= 0
               /\ datos[i][campo] = LimpioEsperado(Get(FilaCruda(i), campo, Ninguno))

\* A comma-decimal text was cleaned to a positive value.
C1_Testigo ==
    /\ pc = "listo"
    /\ Len(datos) = 1
    /\ archivo.encabezado = <<"EXPORTACIONES">>
    /\ archivo.lineas[1][1] = <<"1", ",", "5">>
    /\ datos[1]["EXPORTACIONES"] * 2 = 3 * Escala
    /\ datos[1]["TOTAL_VENTAS"] = 0

-----------------------------------------------------------------------------
\* Grouped reductions.

\* The sum of a field over the records at the positions I.
RECURSIVE SumaCampo(_, _)
SumaCampo(I, campo) ==
    IF I = {} THEN 0
    ELSE LET j == CHOOSE x \in I : TRUE
         IN  datos[j][campo] + SumaCampo(I \ {j}, campo)

DeRegion(r) == {j \in DOMAIN datos : datos[j]["PROVINCIA"] = r}

Regiones == {datos[j]["PROVINCIA"] : j \in DOMAIN datos}

\* The months of the records that have a non-empty one.
MesDe(j) ==
    IF "MES" \in DOMAIN datos[j] /\ datos[j]["MES"].hay THEN datos[j]["MES"].s ELSE <<>>

DeMes(m) == {j \in DOMAIN datos : MesDe(j) = m}

Meses == {MesDe(j) : j \in DOMAIN datos} \ {<<>>}

\* A mapping holds each key once.
SinRepetir(d) == Cardinality(Claves(d)) = Len(d)

\* The position of the first record of region r.
PrimerRegistro(r) == CHOOSE j \in DeRegion(r) : \A x \in DeRegion(r) : j <= x

\* C3: the keys of ventas_totales_por_provincia are exactly the distinct
\* regions of the held records, as many as the distinct upper-cased regions of
\* the input rows, and each value is the sum of TOTAL_VENTAS over the records
\* of its region.
C3_VentasTotales ==
    Hecha("ventas_totales_por_provincia") =>
        /\ ~ultimo.res.error
        /\ SinRepetir(ultimo.res.val)
        /\ Claves(ultimo.res.val) = Regiones
        /\ Len(ultimo.res.val) =
               Cardinality({RegionEsperada(FilaCruda(i)) : i \in DOMAIN DatosDeEntrada})
        /\ \A i \in DOMAIN ultimo.res.val :
               ultimo.res.val[i].v = SumaCampo(DeRegion(ultimo.res.val[i].k), "TOTAL_VENTAS")

\* Two rows whose regions differ by letter case were summed under one key,
\* beside a row of empty region.
C3_Testigo ==
    /\ Hecha("ventas_totales_por_provincia")
    /\ Len(datos) = 3
    /\ Len(ultimo.res.val) = 2
    /\ <<>> \in Claves(ultimo.res.val)
    /\ \E i \in DOMAIN ultimo.res.val :
           /\ ultimo.res.val[i].k = A
           /\ Cardinality(DeRegion(A)) = 2
           /\ ultimo.res.val[i].v * 2 = 7 * Escala

\* C4: ventas_por_provincia(name) returns what ventas_totales_por_provincia()
\* holds under the upper-cased name, the sum of TOTAL_VENTAS of that region,
\* and 0.0 when no record has it; names that differ by letter case only get
\* the same answer.
C4_VentasPorProvincia ==
    Hecha("ventas_por_provincia") =>
        LET totales == ventas_totales_por_provincia(datos).val
            clave == [i \in DOMAIN ultimo.nombre |-> UpperChar(ultimo.nombre[i])]
        IN  /\ ~ultimo.res.error
            /\ clave \in Regiones =>
                   /\ \E i \in DOMAIN totales :
                          totales[i].k = clave /\ totales[i].v = ultimo.res.val
                   /\ ultimo.res.val = SumaCampo(DeRegion(clave), "TOTAL_VENTAS")
            /\ clave \notin Regiones => ultimo.res.val = 0
            /\ \A otro \in Nombres :
                   [i \in DOMAIN otro |-> UpperChar(otro[i])] = clave =>
                       ventas_por_provincia(datos, otro).val = ultimo.res.val

\* A lower-case name found the positive total of its upper-cased region.
C4_Testigo ==
    /\ Hecha("ventas_por_provincia")
    /\ ultimo.nombre = a
    /\ ultimo.res.val > 0
    /\ Cardinality(DeRegion(A)) = 2

\* C5: the keys of exportaciones_totales_por_mes are exactly the non-empty
\* months of the held records, each with the sum of the cleaned EXPORTACIONES
\* of its records (a negative raw export adds 0.0); a record without month
\* adds to no key, and no key stands for the missing month.
C5_ExportacionesPorMes ==
    Hecha("exportaciones_totales_por_mes") =>
        /\ ~ultimo.res.error
        /\ SinRepetir(ultimo.res.val)
        /\ Claves(ultimo.res.val) = Meses
        /\ \A i \in DOMAIN ultimo.res.val :
               /\ ultimo.res.val[i].v = SumaCampo(DeMes(ultimo.res.val[i].k), "EXPORTACIONES")
               /\ ultimo.res.val[i].v >= 0
        /\ Len(datos) = Len(DatosDeEntrada)
        /\ \A j \in DOMAIN datos :
               datos[j]["EXPORTACIONES"] =
                   LimpioEsperado(Get(FilaCruda(j), "EXPORTACIONES", Ninguno))

\* A month summed a positive and a negative export, beside a record whose
\* month is None.
C5_Testigo ==
    /\ Hecha("exportaciones_totales_por_mes")
    /\ Len(datos) = 3
    /\ \E j \in DOMAIN datos : "MES" \in DOMAIN datos[j] /\ ~datos[j]["MES"].hay
    /\ \E i \in DOMAIN ultimo.res.val :
           /\ Cardinality(DeMes(ultimo.res.val[i].k)) = 2
           /\ ultimo.res.val[i].v = 2 * Escala
           /\ \E j \in DeMes(ultimo.res.val[i].k) :
                  FilaCruda(j)["EXPORTACIONES"].s = <<"-", "1">>

\* C6: when some record has a non-empty region,
\* provincia_con_mas_importaciones returns (r, s) with s the sum of
\* IMPORTACIONES over the records of r, no region summing to more, and r the
\* region whose first record comes earliest among those that sum to s.
C6_MasImportaciones ==
    (Hecha("provincia_con_mas_importaciones") /\ Regiones \ {<<>>} # {}) =>
        /\ ~ultimo.res.error
        /\ ultimo.res.val.prov.hay
        /\ ultimo.res.val.prov.s \in Regiones \ {<<>>}
        /\ ultimo.res.val.total = SumaCampo(DeRegion(ultimo.res.val.prov.s), "IMPORTACIONES")
        /\ \A r \in Regiones \ {<<>>} :
               /\ SumaCampo(DeRegion(r), "IMPORTACIONES") <= ultimo.res.val.total
               /\ SumaCampo(DeRegion(r), "IMPORTACIONES") = ultimo.res.val.total =>
                      PrimerRegistro(ultimo.res.val.prov.s) <= PrimerRegistro(r)

\* Two regions tie; the one returned was seen first and completed its sum
\* last.
C6_Testigo ==
    /\ Hecha("provincia_con_mas_importaciones")
    /\ Len(datos) = 3
    /\ datos[1]["PROVINCIA"] = B
    /\ datos[2]["PROVINCIA"] = A
    /\ datos[3]["PROVINCIA"] = B
    /\ SumaCampo(DeRegion(A), "IMPORTACIONES") = SumaCampo(DeRegion(B), "IMPORTACIONES")
    /\ ultimo.res.val.prov = Txt(B)
    /\ ultimo.res.val.total = 2 * Escala

\* C7: porcentaje_ventas_tarifa_cero raises nothing and maps every non-empty
\* region to (sum of VENTAS_NETAS_TARIFA_0 / sum of TOTAL_VENTAS) * 100 when
\* the region's TOTAL_VENTAS sum is nonzero, and to 0.0 when it is zero.
C7_PorcentajeTarifaCero ==
    Hecha("porcentaje_ventas_tarifa_cero") =>
        /\ ~ultimo.res.error
        /\ SinRepetir(ultimo.res.val)
        /\ Claves(ultimo.res.val) = Regiones \ {<<>>}
        /\ \A i \in DOMAIN ultimo.res.val :
               LET cero == SumaCampo(DeRegion(ultimo.res.val[i].k), "VENTAS_NETAS_TARIFA_0")
                   total == SumaCampo(DeRegion(ultimo.res.val[i].k), "TOTAL_VENTAS")
                   v == ultimo.res.val[i].v
               IN  /\ v.ok
                   /\ v.den > 0
                   /\ total # 0 => v.num * total = 100 * cero * v.den
                   /\ total = 0 => v.num = 0

\* One region has zero-rate sales and no sales, another has both.
C7_Testigo ==
    /\ Hecha("porcentaje_ventas_tarifa_cero")
    /\ \E i, j \in DOMAIN ultimo.res.val :
           /\ SumaCampo(DeRegion(ultimo.res.val[i].k), "TOTAL_VENTAS") = 0
           /\ SumaCampo(DeRegion(ultimo.res.val[i].k), "VENTAS_NETAS_TARIFA_0") > 0
           /\ ultimo.res.val[i].v = Cero
           /\ ultimo.res.val[j].v.num = 50
           /\ ultimo.res.val[j].v.den = 1

====
